---- MODULE Spec2Model ----
(***************************************************************************)
(* A model of the two stateful parts of the dev-event application:         *)
(*   - MongoConnectionManager (src/lib/mongodb.ts): the cache of store     *)
(*     connections keyed by connection string, its liveness flags, and     *)
(*     the asynchronous operations and driver notifications that change    *)
(*     them;                                                               *)
(*   - the Event pre-save hook (src/unnamed/part_001): slug derivation     *)
(*     and the checks that gate a write;                                   *)
(*   - the Booking pre-save hook (src/database/booking.model.ts) and the   *)
(*     POST handler that creates Events (src/app/api/events/route.ts).     *)
(* Asynchronous methods are split at their await: the part before it is    *)
(* one atomic step, the part after it another, and any other step may run  *)
(* in between (single-threaded cooperative scheduling).                    *)
(***************************************************************************)
EXTENDS Integers, Sequences, FiniteSets, TLC

\* ------------------------------------------------------------------ bounds
NumUris == 2
MaxHandles == 3
NumCallers == 2
\* Titles of at most this many characters are put through the slug derivation.
MaxTitleLen == 3
\* Titles of at most this many characters are used for the stored events.
EventTitleLen == 1
MaxEvents == 2
\* Times of at most this many characters are put through the time check.
MaxTimeLen == 5
\* Emails of at most this many characters are put through the email check.
MaxEmailLen == 6
MaxBookings == 2

Uris == 1..NumUris
Handles == 1..MaxHandles
Callers == 1..NumCallers

\* The value of a missing key (connectionCache[uri] undefined, null result).
None == 0

VARIABLES
  connectionCache,  \* uri -> handle cached for it, or None
  isConnected,      \* uri -> "absent" | "true" | "false"
  handleState,      \* handle -> "unused" | "pending" | "open" | "failed" | "closed"
  handleUri,        \* handle -> the uri it was created for, or None
  pc,               \* caller -> "idle" | "connecting" | "closing" | "closingAll"
  cUri,             \* caller -> the uri argument of the suspended call
  cHandle,          \* caller -> the handle the suspended call waits on
  daPending,        \* caller -> (uri -> handle whose close its disconnectAll awaits)
  daFailed,         \* caller -> uris whose close failed in its disconnectAll
  daReported,       \* caller -> uris whose close error its disconnectAll raised
  ret,              \* what the step just taken returned or raised to a caller
  stable,           \* uri -> handle a connect returned, with no error or
                    \*        disconnected notification and no disconnect since
  errored,          \* the open handles that have reported an error
  events,           \* id -> the Event document as persisted, or NoEvent
  doc,              \* the Event document held in memory, or NoDoc
  saveResult,       \* what the save just taken did
  bookings,         \* id -> the Booking document as persisted, or NoBooking
  booking,          \* the Booking document held in memory, or NoBookingDoc
  bookingResult,    \* what the Booking save step just taken did
  response          \* the response the POST handler has just sent, or NoResponse

connVars == <<connectionCache, isConnected, handleState, handleUri, pc, cUri,
              cHandle, daPending, daFailed, daReported, ret, stable, errored>>
eventVars == <<events, doc, saveResult>>
bookingVars == <<bookings, booking, bookingResult>>
\* Everything but the connection manager's state.
recordVars == <<eventVars, bookingVars, response>>
vars == <<connVars, eventVars, bookingVars, response>>

\* ------------------------------------------------------------------ errors
NoErr == [kind |-> "none", handle |-> None]
\* The error the driver raises when createConnection for handle h fails.
DriverError(h) == [kind |-> "driver", handle |-> h]
\* The error connection.close() raises for handle h.
CloseError(h) == [kind |-> "close", handle |-> h]
\* Line 123, new Error(`MongoDB 连接失败: ${error.message}`): a new error that
\* carries the message of its cause.
ConnectionFailure(e) == [kind |-> "connectionFailure", handle |-> e.handle]

\* A step that hands nothing to a caller.
NoRet == [op |-> "none", val |-> None, err |-> NoErr]
Returned(o, v) == [op |-> o, val |-> v, err |-> NoErr]
Raised(o, e) == [op |-> o, val |-> None, err |-> e]

\* ------------------------------------------------- synchronous read methods
\* Line 133.
getConnection(uri) == connectionCache[uri]
\* Line 142.
isConnectionAlive(uri) == isConnected[uri] = "true"
\* Line 189.
getActiveConnections == {u \in Uris : connectionCache[u] # None}
\* Line 181.
getConnectionCount == Cardinality(getActiveConnections)

\* ----------------------------------------------------------------- helpers
\* mongoose.createConnection makes a new connection object on every call.
FreshHandles == {h \in Handles : handleState[h] = "unused"}
NewHandle == CHOOSE h \in FreshHandles : \A k \in FreshHandles : h <= k

\* delete this.connectionCache[uri]
Delete(f, uri) == [f EXCEPT ![uri] = None]
\* delete this.isConnected[uri]
DeleteFlag(f, uri) == [f EXCEPT ![uri] = "absent"]

InitConn ==
  /\ connectionCache = [u \in Uris |-> None]
  /\ isConnected = [u \in Uris |-> "absent"]
  /\ handleState = [h \in Handles |-> "unused"]
  /\ handleUri = [h \in Handles |-> None]
  /\ pc = [p \in Callers |-> "idle"]
  /\ cUri = [p \in Callers |-> None]
  /\ cHandle = [p \in Callers |-> None]
  /\ daPending = [p \in Callers |-> [u \in Uris |-> None]]
  /\ daFailed = [p \in Callers |-> {}]
  /\ daReported = [p \in Callers |-> {}]
  /\ ret = NoRet
  /\ stable = [u \in Uris |-> None]
  /\ errored = {}

\* ----------------------------------------------------------------- connect
\* Lines 64-66: a cached entry whose flag is true is returned at once.
ConnectHitsCache(uri) == connectionCache[uri] # None /\ isConnected[uri] = "true"

\* Lines 67-71: a cached entry that is not alive is dropped, with its flag.
EvictStale(uri) ==
  /\ connectionCache' = Delete(connectionCache, uri)
  /\ isConnected' = IF connectionCache[uri] # None
                      THEN DeleteFlag(isConnected, uri)
                      ELSE isConnected

\* connect(uri), up to the await of line 96.
Connect(p, uri) ==
  /\ pc[p] = "idle"
  /\ IF ConnectHitsCache(uri)
       THEN /\ ret' = Returned("connect", connectionCache[uri])
            /\ stable' = [stable EXCEPT ![uri] = connectionCache[uri]]
            /\ UNCHANGED <<connectionCache, isConnected, handleState, handleUri,
                           pc, cUri, cHandle>>
       ELSE /\ FreshHandles # {}
            /\ EvictStale(uri)
            \* line 96: createConnection starts a new connection
            /\ handleState' = [handleState EXCEPT ![NewHandle] = "pending"]
            /\ handleUri' = [handleUri EXCEPT ![NewHandle] = uri]
            /\ pc' = [pc EXCEPT ![p] = "connecting"]
            /\ cUri' = [cUri EXCEPT ![p] = uri]
            /\ cHandle' = [cHandle EXCEPT ![p] = NewHandle]
            /\ ret' = NoRet
            /\ UNCHANGED stable
  /\ UNCHANGED <<daPending, daFailed, daReported>>
  /\ UNCHANGED errored
  /\ UNCHANGED recordVars

\* Lines 98-118: the listeners are registered and the handle is cached; the
\* flag of the uri is left as it is.
CacheNew(uri, h) ==
  /\ connectionCache' = [connectionCache EXCEPT ![uri] = h]
  /\ UNCHANGED isConnected

\* Lines 98-120: the await of line 96 resolved.
ConnectResolve(p) ==
  /\ pc[p] = "connecting"
  /\ handleState' = [handleState EXCEPT ![cHandle[p]] = "open"]
  /\ CacheNew(cUri[p], cHandle[p])
  /\ ret' = Returned("connect", cHandle[p])
  /\ stable' = [stable EXCEPT ![cUri[p]] = cHandle[p]]
  /\ pc' = [pc EXCEPT ![p] = "idle"]
  /\ cUri' = [cUri EXCEPT ![p] = None]
  /\ cHandle' = [cHandle EXCEPT ![p] = None]
  /\ UNCHANGED <<handleUri, daPending, daFailed, daReported>>
  /\ UNCHANGED errored
  /\ UNCHANGED recordVars

\* Lines 121-124: the await of line 96 rejected; nothing is cached.
FailedAttempt(uri, h) == UNCHANGED <<connectionCache, isConnected>>

ConnectReject(p) ==
  /\ pc[p] = "connecting"
  /\ handleState' = [handleState EXCEPT ![cHandle[p]] = "failed"]
  /\ handleUri' = [handleUri EXCEPT ![cHandle[p]] = None]
  /\ FailedAttempt(cUri[p], cHandle[p])
  /\ ret' = Raised("connect", ConnectionFailure(DriverError(cHandle[p])))
  /\ pc' = [pc EXCEPT ![p] = "idle"]
  /\ cUri' = [cUri EXCEPT ![p] = None]
  /\ cHandle' = [cHandle EXCEPT ![p] = None]
  /\ UNCHANGED <<daPending, daFailed, daReported, stable>>
  /\ UNCHANGED errored
  /\ UNCHANGED recordVars

\* -------------------------------------------------------------- disconnect
\* disconnect(uri), up to the await of line 154, or to its end when nothing
\* is cached for uri.
Disconnect(p, uri) ==
  /\ pc[p] = "idle"
  /\ IF connectionCache[uri] = None
       THEN /\ ret' = Returned("disconnect", None)
            /\ UNCHANGED <<pc, cUri, cHandle>>
       ELSE /\ pc' = [pc EXCEPT ![p] = "closing"]
            /\ cUri' = [cUri EXCEPT ![p] = uri]
            /\ cHandle' = [cHandle EXCEPT ![p] = connectionCache[uri]]
            /\ ret' = NoRet
  /\ stable' = [stable EXCEPT ![uri] = None]
  /\ UNCHANGED <<connectionCache, isConnected, handleState, handleUri,
                 daPending, daFailed, daReported>>
  /\ UNCHANGED errored
  /\ UNCHANGED recordVars

\* An eviction that empties the cache, as disconnectAll ends up doing.
EvictAllAfterClose(uri) ==
  /\ connectionCache' = [u \in Uris |-> None]
  /\ isConnected' = [u \in Uris |-> "absent"]

\* An eviction that forgets the flag.
EvictAfterCloseKeepsFlag(uri) ==
  /\ connectionCache' = Delete(connectionCache, uri)
  /\ UNCHANGED isConnected

\* Lines 156-157: the entry and the flag of uri are deleted.
EvictAfterClose(uri) ==
  /\ connectionCache' = Delete(connectionCache, uri)
  /\ isConnected' = DeleteFlag(isConnected, uri)

\* Lines 155-157: close() resolved.
CloseResolve(p) ==
  /\ pc[p] = "closing"
  /\ handleState' = [handleState EXCEPT ![cHandle[p]] = "closed"]
  /\ handleUri' = [handleUri EXCEPT ![cHandle[p]] = None]
  /\ EvictAfterClose(cUri[p])
  /\ ret' = Returned("disconnect", None)
  /\ pc' = [pc EXCEPT ![p] = "idle"]
  /\ cUri' = [cUri EXCEPT ![p] = None]
  /\ cHandle' = [cHandle EXCEPT ![p] = None]
  /\ UNCHANGED <<daPending, daFailed, daReported, stable>>
  /\ errored' = errored \ {cHandle[p]}
  /\ UNCHANGED recordVars

\* Line 160, throw error: the error of close() is rethrown as it is.
CloseRaises(h) == CloseError(h)

\* Lines 158-161: close() rejected.
CloseReject(p) ==
  /\ pc[p] = "closing"
  /\ ret' = Raised("disconnect", CloseRaises(cHandle[p]))
  /\ pc' = [pc EXCEPT ![p] = "idle"]
  /\ cUri' = [cUri EXCEPT ![p] = None]
  /\ cHandle' = [cHandle EXCEPT ![p] = None]
  /\ UNCHANGED <<connectionCache, isConnected, handleState, handleUri,
                 daPending, daFailed, daReported, stable>>
  /\ UNCHANGED errored
  /\ UNCHANGED recordVars

\* ----------------------------------------------------------- disconnectAll
\* Lines 170-173: disconnect(uri) is called for every key of the cache, each
\* running to its await; Promise.all then waits on the promises.  With no key
\* Promise.all([]) resolves at once.  The caller makes its next call when the
\* last of these disconnects has ended; the other callers go on meanwhile.
DisconnectAll(p) ==
  /\ pc[p] = "idle"
  /\ daPending' = [daPending EXCEPT ![p] = connectionCache]
  /\ UNCHANGED <<daFailed, daReported>>
  /\ IF getActiveConnections = {}
       THEN /\ ret' = Returned("disconnectAll", None)
            /\ UNCHANGED pc
       ELSE /\ ret' = NoRet
            /\ pc' = [pc EXCEPT ![p] = "closingAll"]
  /\ stable' = [u \in Uris |-> IF connectionCache[u] # None THEN None ELSE stable[u]]
  /\ UNCHANGED <<connectionCache, isConnected, handleState, handleUri, cUri, cHandle>>
  /\ UNCHANGED errored
  /\ UNCHANGED recordVars

StillPending(p, uri) == {u \in Uris \ {uri} : daPending[p][u] # None}

\* The bookkeeping of a disconnectAll is dropped when its last disconnect ends.
AllDone(p, uri, set) == IF StillPending(p, uri) = {} THEN {} ELSE set

\* The failures of this disconnectAll once the close for uri has rejected.
AllFailedWith(p, uri) == daFailed[p] \cup {uri}

\* Line 173, Promise.all: it rejects with the first rejection of its promises
\* and with that one only, whatever rejects later.
AllReportedWith(p, uri) == IF daFailed[p] = {} THEN {uri} ELSE daReported[p]

\* One of the disconnects started by disconnectAll: its close() resolved.
\* Promise.all resolves when the last promise resolves and none has rejected.
AllCloseResolve(p, uri) ==
  /\ pc[p] = "closingAll"
  /\ daPending[p][uri] # None
  /\ handleState' = [handleState EXCEPT ![daPending[p][uri]] = "closed"]
  /\ handleUri' = [handleUri EXCEPT ![daPending[p][uri]] = None]
  /\ EvictAfterClose(uri)
  /\ daPending' = [daPending EXCEPT ![p][uri] = None]
  /\ daFailed' = [daFailed EXCEPT ![p] = AllDone(p, uri, @)]
  /\ daReported' = [daReported EXCEPT ![p] = AllDone(p, uri, @)]
  /\ ret' = IF daFailed[p] = {} /\ StillPending(p, uri) = {}
              THEN Returned("disconnectAll", None)
              ELSE NoRet
  /\ pc' = [pc EXCEPT ![p] = IF StillPending(p, uri) = {} THEN "idle" ELSE "closingAll"]
  /\ UNCHANGED <<cUri, cHandle, stable>>
  /\ errored' = errored \ {daPending[p][uri]}
  /\ UNCHANGED recordVars

\* One of the disconnects started by disconnectAll: its close() rejected.
AllCloseReject(p, uri) ==
  /\ pc[p] = "closingAll"
  /\ daPending[p][uri] # None
  /\ daFailed' = [daFailed EXCEPT ![p] = AllDone(p, uri, AllFailedWith(p, uri))]
  /\ daReported' = [daReported EXCEPT ![p] = AllDone(p, uri, AllReportedWith(p, uri))]
  /\ daPending' = [daPending EXCEPT ![p][uri] = None]
  /\ ret' = IF daFailed[p] = {}
              THEN Raised("disconnectAll", CloseRaises(daPending[p][uri]))
              ELSE NoRet
  /\ pc' = [pc EXCEPT ![p] = IF StillPending(p, uri) = {} THEN "idle" ELSE "closingAll"]
  /\ UNCHANGED <<connectionCache, isConnected, handleState, handleUri, cUri,
                 cHandle, stable>>
  /\ UNCHANGED errored
  /\ UNCHANGED recordVars

\* ----------------------------------------------------------------- cleanup
\* A test that takes an entry with no flag yet for a live one.
CleanupKeepsUnlessFalse(flags, uri) == flags[uri] # "false"

\* Line 202, if (this.isConnected[uri]).
CleanupKeeps(flags, uri) == flags[uri] = "true"

\* Lines 201-209, one iteration of the forEach for each key in `keys`.
RECURSIVE CleanupLoop(_, _)
CleanupLoop(keys, st) ==
  IF keys = {} THEN st
  ELSE LET uri == CHOOSE u \in keys : \A k \in keys : u <= k
           nx == IF CleanupKeeps(st.flags, uri)
                   THEN st
                   ELSE [cache |-> Delete(st.cache, uri),
                         flags |-> DeleteFlag(st.flags, uri),
                         cleanedCount |-> st.cleanedCount + 1]
       IN CleanupLoop(keys \ {uri}, nx)

\* Lines 198-211.
CleanupResult ==
  CleanupLoop(getActiveConnections,
              [cache |-> connectionCache, flags |-> isConnected, cleanedCount |-> 0])

Cleanup(p) ==
  /\ pc[p] = "idle"
  /\ connectionCache' = CleanupResult.cache
  /\ isConnected' = CleanupResult.flags
  /\ ret' = Returned("cleanup", CleanupResult.cleanedCount)
  /\ UNCHANGED <<handleState, handleUri, pc, cUri, cHandle, daPending, daFailed,
                 daReported, stable>>
  /\ UNCHANGED errored
  /\ UNCHANGED recordVars

\* -------------------------------------------- driver lifecycle notifications
\* The listeners of lines 99-115 are registered when connect resumes; a handle
\* notifies while it is open.

\* Lines 99-102.
OnConnected(h) ==
  /\ handleState[h] = "open"
  /\ isConnected' = [isConnected EXCEPT ![handleUri[h]] = "true"]
  /\ ret' = NoRet
  /\ UNCHANGED <<connectionCache, handleState, handleUri, pc, cUri, cHandle,
                 daPending, daFailed, daReported, stable>>
  /\ UNCHANGED errored
  /\ UNCHANGED recordVars

\* A handler that, like the one for 'disconnected', keeps the cache entry.
ErrorEvictsKeepsEntry(uri) == connectionCache

\* Line 108.
ErrorEvicts(uri) == Delete(connectionCache, uri)

\* Lines 105-109.
OnError(h) ==
  /\ handleState[h] = "open"
  /\ isConnected' = [isConnected EXCEPT ![handleUri[h]] = "false"]
  /\ connectionCache' = ErrorEvicts(handleUri[h])
  /\ stable' = [stable EXCEPT ![handleUri[h]] = None]
  /\ ret' = NoRet
  /\ UNCHANGED <<handleState, handleUri, pc, cUri, cHandle, daPending, daFailed,
                 daReported>>
  /\ errored' = errored \cup {h}
  /\ UNCHANGED recordVars

\* Lines 112-115.
OnDisconnected(h) ==
  /\ handleState[h] = "open"
  /\ isConnected' = [isConnected EXCEPT ![handleUri[h]] = "false"]
  /\ stable' = [stable EXCEPT ![handleUri[h]] = None]
  /\ ret' = NoRet
  /\ UNCHANGED <<connectionCache, handleState, handleUri, pc, cUri, cHandle,
                 daPending, daFailed, daReported>>
  /\ UNCHANGED errored
  /\ UNCHANGED recordVars

NextConn ==
  \/ \E p \in Callers, u \in Uris : Connect(p, u)
  \/ \E p \in Callers : ConnectResolve(p)
  \/ \E p \in Callers : ConnectReject(p)
  \/ \E p \in Callers, u \in Uris : Disconnect(p, u)
  \/ \E p \in Callers : CloseResolve(p)
  \/ \E p \in Callers : CloseReject(p)
  \/ \E p \in Callers : DisconnectAll(p)
  \/ \E p \in Callers, u \in Uris : AllCloseResolve(p, u)
  \/ \E p \in Callers, u \in Uris : AllCloseReject(p, u)
  \/ \E p \in Callers : Cleanup(p)
  \/ \E h \in Handles : OnConnected(h)
  \/ \E h \in Handles : OnError(h)
  \/ \E h \in Handles : OnDisconnected(h)

\* ========================================================== Event documents
\* Characters: a lowercase letter, an uppercase letter, a character outside
\* [a-z0-9\s-], a whitespace character, and the hyphen.
Chars == {"a", "B", "!", " ", "-"}
Whitespace == {" "}
Hyphen == {"-"}

\* All strings of at most n characters.
Strings(n) == UNION {[1..k -> Chars] : k \in 0..n}

\* String.prototype.toLowerCase
LowerChar(c) == IF c = "B" THEN "b" ELSE c
toLowerCase(s) == [i \in 1..Len(s) |-> LowerChar(s[i])]

\* String.prototype.trim, also the `trim: true` setter of the schema.
RECURSIVE TrimLeft(_)
TrimLeft(s) ==
  IF s # <<>> /\ Head(s) \in Whitespace THEN TrimLeft(Tail(s)) ELSE s
RECURSIVE TrimRight(_)
TrimRight(s) ==
  IF s # <<>> /\ s[Len(s)] \in Whitespace THEN TrimRight(SubSeq(s, 1, Len(s) - 1)) ELSE s
trim(s) == TrimRight(TrimLeft(s))

\* Line 123, .replace(/[^a-z0-9\s-]/g, '')
KeptBySlug(c) == c \in {"a", "b", " ", "-"}
StripOthers(s) == SelectSeq(s, KeptBySlug)

\* .replace(/X+/g, '-') for a character class X: each maximal run of
\* characters of the class becomes one hyphen.
RECURSIVE SkipRun(_, _)
SkipRun(s, class) ==
  IF s # <<>> /\ Head(s) \in class THEN SkipRun(Tail(s), class) ELSE s
RECURSIVE RunsToHyphen(_, _)
RunsToHyphen(s, class) ==
  IF s = <<>> THEN <<>>
  ELSE IF Head(s) \in class
         THEN <<"-">> \o RunsToHyphen(SkipRun(s, class), class)
         ELSE <<Head(s)>> \o RunsToHyphen(Tail(s), class)

\* Line 126, .replace(/^--|-$/g, ''): two hyphens at the start are removed,
\* and so is one hyphen at the end.
StripEdgeHyphens(s) ==
  LET a == IF Len(s) >= 2 /\ s[1] = "-" /\ s[2] = "-" THEN SubSeq(s, 3, Len(s)) ELSE s
  IN IF a # <<>> /\ a[Len(a)] = "-" THEN SubSeq(a, 1, Len(a) - 1) ELSE a

\* Lines 121-127.
deriveSlug(title) ==
  trim(StripEdgeHyphens(
         RunsToHyphen(RunsToHyphen(StripOthers(toLowerCase(title)), Whitespace), Hyphen)))

\* Schema setters: title is trimmed (line 26), slug is lowercased and trimmed
\* (lines 32-33).
TitleSetter(v) == trim(v)
SlugSetter(v) == trim(toLowerCase(v))

\* Values of `description`, standing for the fields other than title and slug.
Descriptions == {"", "d1", "d2"}
\* Slugs assigned directly to a document.
SlugInputs == {<<"x">>}

\* The decimal digits, the character class [0-9].
DigitSeq == <<"0", "1", "2", "3", "4", "5", "6", "7", "8", "9">>
Digits == {DigitSeq[i] : i \in 1..10}
DigitVal(c) == (CHOOSE i \in 1..10 : DigitSeq[i] = c) - 1
IsDigits(s) == \A i \in 1..Len(s) : s[i] \in Digits
RECURSIVE Number(_)
Number(s) == IF s = <<>> THEN 0 ELSE 10 * Number(SubSeq(s, 1, Len(s) - 1)) + DigitVal(s[Len(s)])
\* The decimal digits of n, padded with zeros to w places.
RECURSIVE Pad(_, _)
Pad(n, w) == IF w = 0 THEN <<>> ELSE Pad(n \div 10, w - 1) \o <<DigitSeq[(n % 10) + 1]>>

\* Line 141, the alternative ([01]?[0-9]|2[0-3]) of timeRegex: one digit, or
\* two digits of which the first is 0 or 1, or 2 and a digit up to 3.
HourMatches(h) ==
  \/ Len(h) = 1 /\ h[1] \in Digits
  \/ Len(h) = 2 /\ h[1] \in {"0", "1"} /\ h[2] \in Digits
  \/ Len(h) = 2 /\ h[1] = "2" /\ h[2] \in {"0", "1", "2", "3"}

\* Line 141, timeRegex.test(s) for /^([01]?[0-9]|2[0-3]):[0-5][0-9]$/.
MatchesTimeRegex(s) ==
  \E k \in 1..2 :
    /\ Len(s) = k + 3
    /\ HourMatches(SubSeq(s, 1, k))
    /\ s[k + 1] = ":"
    /\ s[k + 2] \in {"0", "1", "2", "3", "4", "5"}
    /\ s[k + 3] \in Digits

\* Line 132, new Date(s), for the date-only forms of the language's date
\* format, which are read as UTC: YYYY-MM-DD, and the expanded form with a
\* sign and six digits of year (-000000 is not a year).  Any other string of
\* DateInputs is not a date.  DateInputs holds no string in another form that
\* an engine may parse in its own way, and no day after the 28th, which may
\* roll over into the next month.
InvalidDate == [valid |-> FALSE, year |-> 0, month |-> 0, day |-> 0]
MonthDay(s, y) ==
  IF /\ Len(s) = 6 /\ s[1] = "-" /\ s[4] = "-"
     /\ IsDigits(SubSeq(s, 2, 3)) /\ IsDigits(SubSeq(s, 5, 6))
     /\ Number(SubSeq(s, 2, 3)) \in 1..12 /\ Number(SubSeq(s, 5, 6)) \in 1..28
    THEN [valid |-> TRUE, year |-> y,
          month |-> Number(SubSeq(s, 2, 3)), day |-> Number(SubSeq(s, 5, 6))]
    ELSE InvalidDate
ParseDate(s) ==
  IF Len(s) = 10 /\ IsDigits(SubSeq(s, 1, 4))
    THEN MonthDay(SubSeq(s, 5, 10), Number(SubSeq(s, 1, 4)))
  ELSE IF /\ Len(s) = 13 /\ s[1] \in {"+", "-"} /\ IsDigits(SubSeq(s, 2, 7))
          /\ ~(s[1] = "-" /\ Number(SubSeq(s, 2, 7)) = 0)
    THEN MonthDay(SubSeq(s, 8, 13),
                  IF s[1] = "-" THEN 0 - Number(SubSeq(s, 2, 7)) ELSE Number(SubSeq(s, 2, 7)))
  ELSE InvalidDate

\* Line 136, toISOString().split('T')[0]: the year has four digits when it is
\* within 0..9999, and a sign and six digits otherwise.
toISODate(t) ==
  (IF t.year \in 0..9999 THEN Pad(t.year, 4)
   ELSE IF t.year < 0 THEN <<"-">> \o Pad(0 - t.year, 6)
   ELSE <<"+">> \o Pad(t.year, 6))
  \o <<"-">> \o Pad(t.month, 2) \o <<"-">> \o Pad(t.day, 2)

\* A date and a time that pass every check, for the documents whose date and
\* time are not of interest.
SomeDate == <<"2", "0", "2", "6", "-", "0", "1", "-", "0", "5">>
SomeTime == <<"0", "9", ":", "0", "5">>
\* The dates given to a document: none, text that is no date, a date in the
\* stored form, the same date with an expanded year, a date after year 9999.
DateInputs ==
  {<<>>, <<"x">>, SomeDate,
   <<"+", "0", "0", "2", "0", "2", "6", "-", "0", "1", "-", "0", "5">>,
   <<"+", "0", "1", "2", "0", "2", "6", "-", "0", "1", "-", "0", "5">>}
\* The times given to a document.
TimeInputs == {<<>>, SomeTime, <<"9", ":", "0", "5">>, <<"2", "4", ":", "0", "0">>}
\* The values of agenda and of tags.
Lists == {<<>>, <<"item">>}

EventIds == 1..MaxEvents
NoEvent == [title |-> <<>>, slug |-> <<>>, description |-> "", date |-> <<>>,
            time |-> <<>>, agenda |-> <<>>, tags |-> <<>>, exists |-> FALSE]
NoDoc == [id |-> None, isNew |-> FALSE, modified |-> {},
          title |-> <<>>, slug |-> <<>>, description |-> "", date |-> <<>>,
          time |-> <<>>, agenda |-> <<>>, tags |-> <<>>]
NoSave == [outcome |-> "none", error |-> "", wasNew |-> FALSE, modified |-> {}]

FreeIds == {i \in EventIds : ~events[i].exists}

\* The fields of a request to create an Event.
Payload(t, d, dt, tm, ag, tg) ==
  [title |-> t, description |-> d, date |-> dt, time |-> tm, agenda |-> ag, tags |-> tg]
\* A payload of which only the title and the description vary.
PlainPayload(t, d) == Payload(t, d, SomeDate, SomeTime, <<"item">>, <<"item">>)

\* new Event(payload): the paths given are marked modified.
NewDocument(id, p) ==
  [id |-> id, isNew |-> TRUE,
   modified |-> {"title", "description", "date", "time", "agenda", "tags"},
   title |-> TitleSetter(p.title), slug |-> <<>>, description |-> p.description,
   date |-> p.date, time |-> p.time, agenda |-> p.agenda, tags |-> p.tags]

\* The document as written to the store.
Stored(d) ==
  [title |-> d.title, slug |-> d.slug, description |-> d.description, date |-> d.date,
   time |-> d.time, agenda |-> d.agenda, tags |-> d.tags, exists |-> TRUE]

InitEvents ==
  /\ events = [i \in EventIds |-> NoEvent]
  /\ doc = NoDoc
  /\ saveResult = NoSave

\* new Event(payload)
NewEvent(p) ==
  /\ FreeIds # {}
  /\ doc' = NewDocument(CHOOSE i \in FreeIds : \A k \in FreeIds : i <= k, p)
  /\ saveResult' = NoSave
  /\ UNCHANGED <<events, connVars, bookingVars, response>>

\* Event.findById(id)
LoadEvent(id) ==
  /\ events[id].exists
  /\ doc' = [id |-> id, isNew |-> FALSE, modified |-> {},
             title |-> events[id].title, slug |-> events[id].slug,
             description |-> events[id].description, date |-> events[id].date,
             time |-> events[id].time, agenda |-> events[id].agenda,
             tags |-> events[id].tags]
  /\ saveResult' = NoSave
  /\ UNCHANGED <<events, connVars, bookingVars, response>>

\* doc.set(path, value): the setter is applied, and the path is marked
\* modified when the value differs.
SetPath(d, path, v) ==
  IF d[path] = v THEN d
  ELSE [d EXCEPT ![path] = v, !.modified = @ \cup {path}]

EditTitle(t) ==
  /\ doc # NoDoc
  /\ doc' = SetPath(doc, "title", TitleSetter(t))
  /\ doc' # doc
  /\ saveResult' = NoSave
  /\ UNCHANGED <<events, connVars, bookingVars, response>>

EditDescription(d) ==
  /\ doc # NoDoc
  /\ doc' = SetPath(doc, "description", d)
  /\ doc' # doc
  /\ saveResult' = NoSave
  /\ UNCHANGED <<events, connVars, bookingVars, response>>

EditSlug(v) ==
  /\ doc # NoDoc
  /\ doc' = SetPath(doc, "slug", SlugSetter(v))
  /\ doc' # doc
  /\ saveResult' = NoSave
  /\ UNCHANGED <<events, connVars, bookingVars, response>>

\* doc.date = v, doc.time = v, doc.agenda = v, doc.tags = v: these paths have
\* no setter (lines 61-68, 79-103).
EditField(path, v) ==
  /\ doc # NoDoc
  /\ doc' = SetPath(doc, path, v)
  /\ doc' # doc
  /\ saveResult' = NoSave
  /\ UNCHANGED <<events, connVars, bookingVars, response>>

\* The schema validators, run before the pre-save hook: title (line 25),
\* description (line 37), date (line 63) and time (line 67) are required,
\* agenda (lines 82-84) and tags (lines 97-99) hold at least one item.
SchemaValid(d) ==
  /\ d.title # <<>> /\ d.description # ""
  /\ d.date # <<>> /\ d.time # <<>>
  /\ Len(d.agenda) > 0 /\ Len(d.tags) > 0

\* A hook that derives the slug on every save of a modified document.
DerivesSlugOnAnyChange(d) == d.modified # {} \/ d.isNew

\* Line 120: whether the hook derives the slug.
DerivesSlug(d) == "title" \in d.modified \/ d.isNew

\* Lines 119-128: the slug step of the pre-save hook.
SlugStep(d) ==
  IF DerivesSlug(d) THEN SetPath(d, "slug", SlugSetter(deriveSlug(d.title))) ELSE d

\* Lines 131-137: the date step of the pre-save hook, for a date that parses.
DateStep(d) ==
  IF "date" \in d.modified THEN SetPath(d, "date", toISODate(ParseDate(d.date))) ELSE d

\* Line 133: the date step rejects the document.
DateRejected(d) == "date" \in d.modified /\ ~ParseDate(d.date).valid

\* Lines 140-142: the time step rejects the document.
TimeRejected(d) == "time" \in d.modified /\ ~MatchesTimeRegex(d.time)

\* Line 148, requiredFields; description stands for the fields that are
\* neither derived nor checked for their form.
RequiredFields == <<"title", "description", "date", "time">>
Missing(d, field) == IF field = "description" THEN d[field] = "" ELSE d[field] = <<>>
\* Lines 148-153: the required fields of the hook.
HookValid(d) == \A i \in 1..Len(RequiredFields) : ~Missing(d, RequiredFields[i])

\* Lines 118-156: the pre-save hook; the document as the hook leaves it, and
\* the message of the error it passes to next(), "" when it passes none.
HookRun(d) ==
  LET a == SlugStep(d)
  IN IF DateRejected(a) THEN [doc |-> a, error |-> "Invalid date format"]
     ELSE LET b == DateStep(a)
          IN IF TimeRejected(b) THEN [doc |-> b, error |-> "Time must be in HH:MM format"]
             ELSE IF ~HookValid(b)
               THEN [doc |-> b,
                     error |-> RequiredFields[
                                 CHOOSE i \in 1..Len(RequiredFields) :
                                   /\ Missing(b, RequiredFields[i])
                                   /\ \A j \in 1..(i - 1) : ~Missing(b, RequiredFields[j])]
                               \o " is required"]
             ELSE [doc |-> b, error |-> ""]

\* Lines 29-31: the unique index on slug.
SlugTaken(d) == \E j \in EventIds \ {d.id} : events[j].exists /\ events[j].slug = d.slug

\* What doc.save() does with document d: the schema validators, the pre-save
\* hook, the write.
SaveOutcome(d) ==
  LET hook == HookRun(d)
  IN IF ~SchemaValid(d)
       THEN [outcome |-> "ValidationError", error |-> "Event validation failed", doc |-> d]
     ELSE IF hook.error # ""
       THEN [outcome |-> "HookError", error |-> hook.error, doc |-> hook.doc]
     ELSE IF SlugTaken(hook.doc)
       THEN [outcome |-> "DuplicateKey", error |-> "E11000 duplicate key error",
             doc |-> hook.doc]
     ELSE [outcome |-> "saved", error |-> "",
           doc |-> [hook.doc EXCEPT !.isNew = FALSE, !.modified = {}]]

\* doc.save()
Save ==
  /\ doc # NoDoc
  /\ LET res == SaveOutcome(doc)
     IN /\ saveResult' = [outcome |-> res.outcome, error |-> res.error,
                          wasNew |-> doc.isNew, modified |-> doc.modified]
        /\ doc' = res.doc
        /\ events' = IF res.outcome = "saved"
                       THEN [events EXCEPT ![doc.id] = Stored(res.doc)]
                       ELSE events
  /\ UNCHANGED <<connVars, bookingVars, response>>

NextEvents ==
  \/ \E t \in Strings(EventTitleLen), d \in Descriptions : NewEvent(PlainPayload(t, d))
  \/ \E i \in EventIds : LoadEvent(i)
  \/ \E t \in Strings(EventTitleLen) : EditTitle(t)
  \/ \E d \in Descriptions : EditDescription(d)
  \/ \E v \in SlugInputs : EditSlug(v)
  \/ Save

\* ---------------------------------------------------------------- bookings
\* The characters of the emails put through the email check: a letter, "@",
\* ".", a space.
EmailChars == {"a", "@", ".", " "}
EmailStrings(n) == UNION {[1..k -> EmailChars] : k \in 0..n}

\* Lines 21-22 of booking.model.ts, the setters of email: trim, lowercase.
EmailSetter(v) == trim(toLowerCase(v))

\* A pattern that only asks for an "@" between two characters.
MatchesAnyAt(s) == \E i \in 2..(Len(s) - 1) : s[i] = "@"

\* Lines 25 and 65, emailRegex.test(s) for /^[^\s@]+@[^\s@]+\.[^\s@]+$/: an
\* "@" at i and a "." at j, at least one character before i, between i and j
\* and after j, and no whitespace and no other "@" anywhere.
MatchesEmailRegex(s) ==
  \E i \in 2..(Len(s) - 3) : \E j \in (i + 2)..(Len(s) - 1) :
    /\ s[i] = "@"
    /\ s[j] = "."
    /\ \A k \in (1..Len(s)) \ {i} : s[k] \notin Whitespace \cup {"@"}

\* The emails given to the Bookings whose email is not of interest: none, one
\* without "@", a well-formed one, another well-formed one.
EmailInputs ==
  {<<>>, <<"a">>, <<"a", "@", "a", ".", "a">>, <<"B", "@", "a", ".", "a">>}

BookingIds == 1..MaxBookings
NoBooking == [eventId |-> None, email |-> <<>>, exists |-> FALSE]
NoBookingDoc == [id |-> None, isNew |-> FALSE, modified |-> {}, eventId |-> None,
                 email |-> <<>>, given |-> <<>>, saving |-> FALSE]
NoBookingResult == [outcome |-> "none", error |-> "", wasNew |-> FALSE,
                    modified |-> {}, lookedUp |-> FALSE]

FreeBookingIds == {i \in BookingIds : ~bookings[i].exists}

\* new Booking({eventId, email}); `given` keeps the email as it was given,
\* before the setters.
NewBookingDocument(id, eid, e) ==
  [id |-> id, isNew |-> TRUE, modified |-> {"eventId", "email"}, eventId |-> eid,
   email |-> EmailSetter(e), given |-> e, saving |-> FALSE]

\* An Event that passed every check and was written.
SomeEvent == Stored(HookRun(NewDocument(1, PlainPayload(<<"a">>, "d1"))).doc)

InitBookings ==
  /\ bookings = [i \in BookingIds |-> NoBooking]
  /\ booking = NoBookingDoc
  /\ bookingResult = NoBookingResult

\* new Booking(payload)
NewBooking(eid, e) ==
  /\ FreeBookingIds # {}
  /\ ~booking.saving
  /\ booking' = NewBookingDocument(
                  CHOOSE i \in FreeBookingIds : \A k \in FreeBookingIds : i <= k, eid, e)
  /\ bookingResult' = NoBookingResult
  /\ UNCHANGED <<bookings, connVars, eventVars, response>>

\* Booking.findById(id)
LoadBooking(id) ==
  /\ bookings[id].exists
  /\ ~booking.saving
  /\ booking' = [id |-> id, isNew |-> FALSE, modified |-> {},
                 eventId |-> bookings[id].eventId, email |-> bookings[id].email,
                 given |-> bookings[id].email, saving |-> FALSE]
  /\ bookingResult' = NoBookingResult
  /\ UNCHANGED <<bookings, connVars, eventVars, response>>

\* booking.email = e
EditBookingEmail(e) ==
  /\ booking # NoBookingDoc
  /\ ~booking.saving
  /\ booking' = [SetPath(booking, "email", EmailSetter(e)) EXCEPT !.given = e]
  /\ booking'.email # booking.email
  /\ bookingResult' = NoBookingResult
  /\ UNCHANGED <<bookings, connVars, eventVars, response>>

\* booking.eventId = eid
EditBookingEvent(eid) ==
  /\ booking # NoBookingDoc
  /\ ~booking.saving
  /\ booking' = SetPath(booking, "eventId", eid)
  /\ booking' # booking
  /\ bookingResult' = NoBookingResult
  /\ UNCHANGED <<bookings, connVars, eventVars, response>>

\* The removal of an Event, which the application leaves to its environment.
RemoveEvent(id) ==
  /\ events[id].exists
  /\ events' = [events EXCEPT ![id] = NoEvent]
  /\ bookingResult' = NoBookingResult
  /\ UNCHANGED <<doc, saveResult, bookings, booking, connVars, response>>

\* Lines 12-30: the schema validators, run before the pre-save hook; the
\* message of the first that fails, "" when none does.
BookingSchemaError(b) ==
  IF b.eventId = None THEN "Event ID is required"
  ELSE IF b.email = <<>> THEN "Email is required"
  ELSE IF ~MatchesEmailRegex(b.email) THEN "Invalid email format"
  ELSE ""

\* A hook that looks the Event up on every save.
ChecksEventAlways(b) == TRUE

\* Line 47: whether the hook looks the Event up.
ChecksEvent(b) == b.isNew \/ "eventId" \in b.modified

\* Lines 47-70: the pre-save hook; the message of the error it passes to
\* next(), "" when it passes none.  The store is taken to answer the lookup.
BookingHookError(b) ==
  IF ChecksEvent(b) /\ ~events[b.eventId].exists THEN "Referenced event does not exist"
  ELSE IF b.email = <<>> THEN "Email is required"
  ELSE IF ~MatchesEmailRegex(b.email) THEN "Invalid email format"
  ELSE ""

\* booking.save() up to the write: the schema validators, then the hook with
\* its lookup of the Event.  When both pass, the write is sent to the store.
SaveBooking ==
  /\ booking # NoBookingDoc
  /\ ~booking.saving
  /\ LET invalid == BookingSchemaError(booking)
         hook == BookingHookError(booking)
         outcome == IF invalid # "" THEN "ValidationError"
                    ELSE IF hook # "" THEN "HookError"
                    ELSE "writing"
     IN /\ bookingResult' = [outcome |-> outcome,
                             error |-> IF invalid # "" THEN invalid ELSE hook,
                             wasNew |-> booking.isNew, modified |-> booking.modified,
                             lookedUp |-> invalid = "" /\ ChecksEvent(booking)]
        /\ booking' = [booking EXCEPT !.saving = (outcome = "writing")]
  /\ UNCHANGED <<bookings, connVars, eventVars, response>>

\* booking.save(), the write: the store has written the Booking.
WriteBooking ==
  /\ booking.saving
  /\ bookings' = [bookings EXCEPT ![booking.id] =
                    [eventId |-> booking.eventId, email |-> booking.email, exists |-> TRUE]]
  /\ bookingResult' = [outcome |-> "saved", error |-> "", wasNew |-> booking.isNew,
                       modified |-> booking.modified, lookedUp |-> ChecksEvent(booking)]
  /\ booking' = [booking EXCEPT !.isNew = FALSE, !.modified = {}, !.saving = FALSE]
  /\ UNCHANGED <<connVars, eventVars, response>>

NextBookings ==
  \/ \E eid \in EventIds, e \in EmailInputs : NewBooking(eid, e)
  \/ \E i \in BookingIds : LoadBooking(i)
  \/ \E e \in EmailInputs : EditBookingEmail(e)
  \/ \E eid \in EventIds : EditBookingEvent(eid)
  \/ \E i \in EventIds : RemoveEvent(i)
  \/ SaveBooking
  \/ WriteBooking

\* ------------------------------------------------------- the POST handler
\* Line 245 of mongodb.ts: the connection string of the environment, which
\* connectToDatabase() connects to.
DefaultUri == 1
\* The caller of the connection manager that the handler is.
RouteCaller == 1

NoResponse == [status |-> 0, message |-> "", error |-> ""]
\* Line 18 of route.ts.
Created == [status |-> 201, message |-> "Event created successfully", error |-> ""]
\* Lines 19-22 of route.ts: the reply to every error caught, with the
\* message of the error.
CreationFailed(msg) == [status |-> 500, message |-> "Event creation failed", error |-> msg]

\* Line 8 of route.ts, await connectToDatabase(): the handler calls
\* connect(DefaultUri); here every connect of RouteCaller is the handler's.
PostConnect == Connect(RouteCaller, DefaultUri)

\* Lines 9-22 of route.ts, the handler once connectToDatabase() has returned
\* or thrown: a thrown error is caught and answered; otherwise the payload is
\* read from the request and given to Event.create, which makes a document
\* and saves it, and the outcome is answered.
PostCreate(p) ==
  /\ ret.op = "connect"
  /\ FreeIds # {}
  /\ LET d == NewDocument(CHOOSE i \in FreeIds : \A k \in FreeIds : i <= k, p)
         res == SaveOutcome(d)
     IN IF ret.err # NoErr
          THEN /\ response' = CreationFailed("Failed to connect to MongoDB")
               /\ saveResult' = NoSave
               /\ events' = events
          ELSE /\ response' = IF res.outcome = "saved" THEN Created
                              ELSE CreationFailed(res.error)
               /\ saveResult' = [outcome |-> res.outcome, error |-> res.error,
                                 wasNew |-> TRUE, modified |-> d.modified]
               /\ events' = IF res.outcome = "saved"
                              THEN [events EXCEPT ![d.id] = Stored(res.doc)]
                              ELSE events
  /\ ret' = NoRet
  /\ UNCHANGED <<connectionCache, isConnected, handleState, handleUri, pc, cUri,
                 cHandle, daPending, daFailed, daReported, stable, errored>>
  /\ UNCHANGED <<doc, bookingVars>>

\* The payloads of the requests.
RoutePayloads ==
  {Payload(t, d, SomeDate, tm, <<"item">>, <<"item">>) :
     t \in Strings(EventTitleLen), d \in {"", "d1"}, tm \in {SomeTime, <<"2", "4", ":", "0", "0">>}}

NextRoute ==
  \/ PostConnect
  \/ ConnectResolve(RouteCaller)
  \/ ConnectReject(RouteCaller)
  \/ \E h \in Handles : OnError(h)
  \/ \E p \in RoutePayloads : PostCreate(p)

\* ------------------------------------------------------------ specifications
Init == InitConn /\ InitEvents /\ InitBookings /\ response = NoResponse
Next == NextConn \/ NextEvents \/ NextBookings \/ NextRoute
Spec == Init /\ [][Next]_vars

\* The connection manager alone.
SpecConn == Init /\ [][NextConn]_vars

\* The Event documents alone.
SpecEvents == Init /\ [][NextEvents]_vars

\* The slug derivation: a new document with any title is saved.
InitSlug ==
  /\ InitConn /\ InitBookings /\ response = NoResponse
  /\ events = [i \in EventIds |-> NoEvent]
  /\ \E t \in Strings(MaxTitleLen) : doc = NewDocument(1, PlainPayload(t, "d1"))
  /\ saveResult = NoSave
NextSlug == Save
SpecSlug == InitSlug /\ [][NextSlug]_vars

\* The time check: a new document with any time is saved.
TimeChars == {"0", "2", "3", "4", "5", "9", ":"}
TimeStrings(n) == UNION {[1..k -> TimeChars] : k \in 0..n}
InitTime ==
  /\ InitConn /\ InitBookings /\ response = NoResponse
  /\ events = [i \in EventIds |-> NoEvent]
  /\ \E tm \in TimeStrings(MaxTimeLen) :
       doc = NewDocument(1, Payload(<<"a">>, "d1", SomeDate, tm, <<"item">>, <<"item">>))
  /\ saveResult = NoSave
NextTime == Save
SpecTime == InitTime /\ [][NextTime]_vars

\* The checked fields of the Event documents: documents with any date, time,
\* agenda and tags are made, edited and saved.
FieldTitles == {<<"a">>, <<"B">>}
NextFields ==
  \/ \E t \in FieldTitles, d \in {"", "d1"}, dt \in DateInputs, tm \in TimeInputs,
        ag \in Lists, tg \in Lists : NewEvent(Payload(t, d, dt, tm, ag, tg))
  \/ \E i \in EventIds : LoadEvent(i)
  \/ \E dt \in DateInputs : EditField("date", dt)
  \/ \E tm \in TimeInputs : EditField("time", tm)
  \/ \E l \in Lists : EditField("agenda", l)
  \/ \E l \in Lists : EditField("tags", l)
  \/ Save
SpecFields == Init /\ [][NextFields]_vars

\* The Bookings: one Event is persisted, Bookings are made, edited and saved,
\* and Events are removed.
InitBooking ==
  /\ InitConn /\ InitBookings /\ response = NoResponse
  /\ events = [i \in EventIds |-> IF i = 1 THEN SomeEvent ELSE NoEvent]
  /\ doc = NoDoc
  /\ saveResult = NoSave
SpecBooking == InitBooking /\ [][NextBookings]_vars

\* The email check: a new Booking of a persisted Event, with any email, is
\* saved.
InitEmail ==
  /\ InitConn /\ response = NoResponse
  /\ events = [i \in EventIds |-> IF i = 1 THEN SomeEvent ELSE NoEvent]
  /\ doc = NoDoc
  /\ saveResult = NoSave
  /\ bookings = [i \in BookingIds |-> NoBooking]
  /\ \E e \in EmailStrings(MaxEmailLen) : booking = NewBookingDocument(1, 1, e)
  /\ bookingResult = NoBookingResult
NextEmail == SaveBooking \/ WriteBooking
SpecEmail == InitEmail /\ [][NextEmail]_vars

\* The POST handler of the events route, with the connection it asks for.
SpecRoute == Init /\ [][NextRoute]_vars

\* ==================================================================== claims

\* C1: when connect(uri) is called while another connect(uri) is waiting for
\* its connection and the cache has no entry for uri, no second connection
\* is created: the callers share one attempt, hence one handle.
C1_OverlappingConnectsShareOneConnection ==
  [][\A p, q \in Callers, u \in Uris :
       (p # q /\ pc[q] = "connecting" /\ cUri[q] = u /\ connectionCache[u] = None
          /\ Connect(p, u))
       => FreshHandles' = FreshHandles]_vars

\* C2: in every reachable state, a handle that getConnection or connect hands
\* out (the cache entry of its uri) belongs to an entry whose liveness flag is
\* true.
C2_NoDeadHandleReturned ==
  \A u \in Uris : getConnection(u) # None => isConnectionAlive(u)

\* C3: once connect(uri) has returned a handle, and until an error or
\* disconnected notification or a disconnect for uri, every connect(uri)
\* returns that handle at once and creates no connection.
C3_RepeatedConnectReusesHandle ==
  [][\A p \in Callers, u \in Uris :
       (stable[u] # None /\ Connect(p, u))
       => /\ ret' = Returned("connect", stable[u])
          /\ FreshHandles' = FreshHandles]_vars

\* C4: when the handle cached for a uri reports an error, getConnection(uri)
\* is absent afterwards and a connect(uri) called then does not take the
\* cached path but makes a new attempt; and no handle that has reported an
\* error is in the cache, so no connect returns one.
C4_ErrorStep ==
  \A h \in Handles :
    (handleState[h] = "open" /\ connectionCache[handleUri[h]] = h /\ OnError(h))
    => /\ getConnection(handleUri[h])' = None
       /\ ~ConnectHitsCache(handleUri[h])'
C4_ConnectResult ==
  (ret'.op = "connect" /\ ret'.val # None) => ret'.val \notin errored'
C4_NoErroredHandleCached == \A u \in Uris : connectionCache[u] \notin errored
C4_ReconnectAfterError ==
  [][C4_ErrorStep /\ C4_ConnectResult /\ C4_NoErroredHandleCached']_vars

\* C4 witness: after an error of the cached handle, a connect for the same
\* uri has returned another handle.
C4_Witness ==
  /\ ret.op = "connect" /\ ret.val # None
  /\ \E h \in errored : handleUri[h] = handleUri[ret.val] /\ h # ret.val

\* C5: cleanup() evicts exactly the cached entries whose flag is not true and
\* returns how many they are; the entries whose flag is true keep their
\* handle and their flag, and the count afterwards is their number.
C5_CleanupStep ==
  \A p \in Callers :
    (ret'.op = "cleanup" /\ Cleanup(p)) =>
      LET live == {u \in Uris : connectionCache[u] # None /\ isConnected[u] = "true"}
          dead == {u \in Uris : connectionCache[u] # None /\ isConnected[u] # "true"}
      IN /\ getActiveConnections' = live
         /\ ret' = Returned("cleanup", Cardinality(dead))
         /\ \A u \in live : /\ connectionCache'[u] = connectionCache[u]
                            /\ isConnected'[u] = isConnected[u]
         /\ getConnectionCount' = Cardinality(live)
C5_CleanupEvictsExactlyDead == [][C5_CleanupStep]_vars

\* C5 witness: a cleanup has evicted an entry and kept a live one.
C5_Witness ==
  /\ ret.op = "cleanup" /\ ret.val >= 1
  /\ \E u \in Uris : connectionCache[u] # None /\ isConnected[u] = "true"

\* C6: disconnectAll() starts a disconnect for every uri cached when it is
\* called; every uri whose close succeeds is evicted; and every uri whose
\* close has failed is among the failures raised to the caller.
C6_DisconnectAllStep ==
  \A p \in Callers :
    /\ DisconnectAll(p) => daPending'[p] = connectionCache
    /\ \A u \in Uris :
         /\ AllCloseResolve(p, u) => connectionCache'[u] = None
         /\ AllCloseReject(p, u) => AllFailedWith(p, u) \subseteq AllReportedWith(p, u)
C6_DisconnectAllReportsEveryFailure == [][C6_DisconnectAllStep]_vars

\* C7: disconnect(uri) with an entry cached waits for the close of the cached
\* handle and then deletes the entry and the flag of uri; when the close
\* fails the error of the close is what the caller gets; with no entry
\* cached it returns at once and changes nothing.
C7_DisconnectStep ==
  \A p \in Callers :
    /\ \A u \in Uris :
         Disconnect(p, u) =>
           IF connectionCache[u] = None
             THEN /\ ret' = Returned("disconnect", None)
                  /\ UNCHANGED <<connectionCache, isConnected, handleState, pc>>
             ELSE pc'[p] = "closing" /\ cHandle'[p] = connectionCache[u]
    /\ CloseResolve(p) =>
         /\ handleState'[cHandle[p]] = "closed"
         /\ connectionCache'[cUri[p]] = None
         /\ isConnected'[cUri[p]] = "absent"
         /\ ret' = Returned("disconnect", None)
    /\ CloseReject(p) => ret' = Raised("disconnect", CloseError(cHandle[p]))
C7_DisconnectClosesAndEvicts == [][C7_DisconnectStep]_vars

\* C7 witness: a disconnect has returned with a handle closed, and the cache
\* holds neither an entry nor a flag.
C7_Witness ==
  /\ ret = Returned("disconnect", None)
  /\ \E h \in Handles : handleState[h] = "closed"
  /\ \A u \in Uris : connectionCache[u] = None /\ isConnected[u] = "absent"

\* C8: when the attempt of connect(uri) fails the caller gets a
\* connection-failure error, and when connect returns the cache holds no
\* entry for uri and uri is not reported alive.
C8_FailedConnectStep ==
  \A p \in Callers :
    ConnectReject(p) =>
      /\ ret'.op = "connect" /\ ret'.err.kind = "connectionFailure"
      /\ connectionCache'[cUri[p]] = None
      /\ isConnected'[cUri[p]] # "true"
C8_FailedConnectLeavesNoEntry == [][C8_FailedConnectStep]_vars

\* C9: the slug of a saved Event is the slug derived from its title, holds
\* only lowercase letters, digits and hyphens, has no two adjacent hyphens,
\* and neither begins nor ends with a hyphen.
SlugWellFormed(s) ==
  /\ \A i \in 1..Len(s) : s[i] \in {"a", "b", "-"}
  /\ \A i \in 1..(Len(s) - 1) : ~(s[i] = "-" /\ s[i + 1] = "-")
  /\ s # <<>> => (s[1] # "-" /\ s[Len(s)] # "-")
C9_SlugWellFormed ==
  \A i \in EventIds :
    events[i].exists =>
      /\ events[i].slug = deriveSlug(events[i].title)
      /\ SlugWellFormed(events[i].slug)

\* C10: a save of a persisted Event whose title was not modified leaves the
\* slug of the document as it was, and writes it as it was; when the slug
\* itself was not assigned either, the stored slug does not change.
C10_SaveStep ==
  (Save /\ ~doc.isNew /\ "title" \notin doc.modified)
  => /\ doc'.slug = doc.slug
     /\ saveResult'.outcome = "saved" => events'[doc.id].slug = doc.slug
     /\ "slug" \notin doc.modified => events'[doc.id].slug = events[doc.id].slug
C10_SlugKeptWithoutTitleChange == [][C10_SaveStep]_vars

\* C10 witness: an Event whose stored slug is not the one its title derives
\* has been saved again with only its description changed.
C10_Witness ==
  /\ saveResult.outcome = "saved" /\ ~saveResult.wasNew
  /\ saveResult.modified = {"description"}
  /\ events[doc.id].slug # deriveSlug(events[doc.id].title)

\* C11: a new Event whose time was given is saved exactly when the time is
\* HH:MM with a two-digit hour 00-23 and a two-digit minute 00-59; a time that
\* is not is rejected with the format error of the time check; and a time
\* that is accepted is stored as it was given.
IsHHMM(s) ==
  /\ Len(s) = 5 /\ s[3] = ":"
  /\ IsDigits(SubSeq(s, 1, 2)) /\ IsDigits(SubSeq(s, 4, 5))
  /\ Number(SubSeq(s, 1, 2)) \in 0..23
  /\ Number(SubSeq(s, 4, 5)) \in 0..59
C11_TimeAcceptedExactlyWhenHHMM ==
  (saveResult.outcome # "none" /\ doc.time # <<>>) =>
    /\ (saveResult.outcome = "saved") <=> IsHHMM(doc.time)
    /\ saveResult.outcome = "saved" => events[doc.id].time = doc.time
    /\ saveResult.outcome # "saved" => saveResult.error = "Time must be in HH:MM format"

\* C12: the save of a new Booking whose eventId is the id of no Event
\* existing at the lookup fails with the referential-integrity error, sends
\* no write, and leaves the persisted Bookings as they were.
C12_SaveStep ==
  (booking # NoBookingDoc /\ booking.isNew /\ ~events[booking.eventId].exists
     /\ SaveBooking)
  => /\ bookingResult'.error = "Referenced event does not exist"
     /\ ~booking'.saving
     /\ bookings' = bookings
C12_BookingOfMissingEventRejected == [][C12_SaveStep]_vars

\* The form of an email: one or more characters that are neither whitespace
\* nor "@", then "@", then one or more such characters, then ".", then one or
\* more such characters.
Plain(s) == s # <<>> /\ \A k \in 1..Len(s) : s[k] \notin {" ", "@"}
HasEmailForm(s) ==
  \E i \in 1..Len(s), j \in 1..Len(s) :
    /\ i < j
    /\ s[i] = "@" /\ s[j] = "."
    /\ Plain(SubSeq(s, 1, i - 1))
    /\ Plain(SubSeq(s, i + 1, j - 1))
    /\ Plain(SubSeq(s, j + 1, Len(s)))

\* C13 as stated: the save of a new Booking of an existing Event succeeds
\* exactly when the email given has the form; otherwise it fails with a
\* format error and no Booking is persisted.
C13_SucceedsExactlyWhenEmailGivenHasForm ==
  bookingResult.outcome \notin {"none", "writing"} =>
    /\ (bookingResult.outcome = "saved") <=> HasEmailForm(booking.given)
    /\ bookingResult.outcome # "saved" =>
         /\ bookingResult.outcome = "ValidationError"
         /\ \A i \in BookingIds : ~bookings[i].exists

\* C13 amended: the save of a new Booking of an existing Event sends its
\* write, and the Booking is persisted, exactly when the email as the setters
\* of the schema leave it (trimmed of the whitespace around it, lowercased) has
\* the form, and that is the email stored; otherwise the save fails with a
\* validation error, "Invalid email format" or, when nothing is left, "Email
\* is required", and no Booking is persisted.
C13_SucceedsExactlyWhenTrimmedEmailHasForm ==
  bookingResult.outcome # "none" =>
    /\ (bookingResult.outcome \in {"writing", "saved"})
         <=> HasEmailForm(trim(toLowerCase(booking.given)))
    /\ bookingResult.outcome = "saved" =>
         bookings[booking.id] = [eventId |-> booking.eventId,
                                 email |-> trim(toLowerCase(booking.given)),
                                 exists |-> TRUE]
    /\ bookingResult.outcome \notin {"writing", "saved"} =>
         /\ bookingResult.outcome = "ValidationError"
         /\ bookingResult.error \in {"Invalid email format", "Email is required"}
         /\ \A i \in BookingIds : ~bookings[i].exists

\* C13 witness: a Booking whose email was given with whitespace around it has
\* been persisted.
C13_Witness ==
  /\ bookingResult.outcome = "saved"
  /\ bookings[booking.id].exists
  /\ booking.given # booking.email

\* C14: every persisted Event has a date of the form YYYY-MM-DD, a time that
\* passes the time check, a title, a description, a date and a time that are
\* not empty, and an agenda and tags that hold at least one item.
IsCanonicalDate(s) ==
  /\ Len(s) = 10 /\ s[5] = "-" /\ s[8] = "-"
  /\ IsDigits(SubSeq(s, 1, 4)) /\ IsDigits(SubSeq(s, 6, 7)) /\ IsDigits(SubSeq(s, 9, 10))
C14_PersistedEventsPassedEveryCheck ==
  \A i \in EventIds :
    events[i].exists =>
      /\ IsCanonicalDate(events[i].date)
      /\ MatchesTimeRegex(events[i].time)
      /\ events[i].title # <<>> /\ events[i].description # ""
      /\ events[i].date # <<>> /\ events[i].time # <<>>
      /\ events[i].agenda # <<>> /\ events[i].tags # <<>>

\* C15: when the slug derived for the payload is the slug of a persisted
\* Event, the handler persists nothing and answers with a status and a
\* message that it gives to no validation error and to no other failure.
IsDuplicate(p) ==
  LET d == NewDocument(CHOOSE i \in FreeIds : \A k \in FreeIds : i <= k, p)
  IN SchemaValid(d) /\ HookRun(d).error = "" /\ SlugTaken(HookRun(d).doc)
Kind(r) == <<r.status, r.message>>
OtherFailures ==
  {CreationFailed(m) : m \in {"Event validation failed", "Time must be in HH:MM format",
                              "Failed to connect to MongoDB"}}
C15_CreateStep ==
  \A p \in RoutePayloads :
    (ret.op = "connect" /\ ret.err = NoErr /\ FreeIds # {} /\ IsDuplicate(p)
       /\ PostCreate(p))
    => /\ events' = events
       /\ response'.status \notin 200..299
       /\ \A r \in OtherFailures : Kind(response') # Kind(r)
C15_DuplicateSlugIsDistinctError == [][C15_CreateStep]_vars

\* C16: the handler answers a request that a validation check rejects with
\* a client-error status, and a request whose connection to the store fails
\* with a server-error status.
C16_CreateStep ==
  \A p \in RoutePayloads :
    (ret.op = "connect" /\ PostCreate(p))
    => /\ saveResult'.outcome \in {"ValidationError", "HookError"}
            => response'.status \in 400..499
       /\ ret.err # NoErr => response'.status \in 500..599
C16_ErrorsMapToStatusClasses == [][C16_CreateStep]_vars

\* C17: for distinct uris a and b, no step of connect(a) or disconnect(a)
\* and no notification of a handle opened for a changes the cache entry or the
\* flag of b: a step that changes them is none of these.  (getConnection
\* changes nothing.)
OperationOn(a) ==
  \/ \E p \in Callers :
       \/ Connect(p, a)
       \/ Disconnect(p, a)
       \/ cUri[p] = a /\ pc[p] = "connecting" /\ (ConnectResolve(p) \/ ConnectReject(p))
       \/ cUri[p] = a /\ pc[p] = "closing" /\ (CloseResolve(p) \/ CloseReject(p))
  \/ \E h \in Handles :
       handleUri[h] = a /\ (OnConnected(h) \/ OnError(h) \/ OnDisconnected(h))
C17_Step ==
  \A b \in Uris :
    (connectionCache'[b] # connectionCache[b] \/ isConnected'[b] # isConnected[b])
    => \A a \in Uris \ {b} : ~OperationOn(a)
C17_OtherIdentityUntouched == [][C17_Step]_vars

\* C17 witness: a disconnect has closed the handle of one uri and evicted its
\* entry while another uri has its entry and a true flag.
C17_Witness ==
  /\ ret = Returned("disconnect", None)
  /\ \E h \in Handles : handleState[h] = "closed"
  /\ \E a, b \in Uris :
       /\ connectionCache[a] = None /\ isConnected[a] = "absent"
       /\ connectionCache[b] # None /\ isConnected[b] = "true"

\* C18: the save of a persisted Booking whose eventId was not modified looks
\* no Event up; with an email that has the form it does not fail and sends its
\* write, whether or not the Event exists, and the write persists the Booking
\* with that email.
C18_SaveStep ==
  /\ (booking # NoBookingDoc /\ ~booking.isNew /\ "eventId" \notin booking.modified
        /\ SaveBooking)
     => /\ ~bookingResult'.lookedUp
        /\ HasEmailForm(booking.email) =>
             /\ bookingResult'.outcome = "writing"
             /\ booking'.saving
  /\ (booking.saving /\ ~booking.isNew /\ "eventId" \notin booking.modified
        /\ WriteBooking)
     => /\ bookingResult'.outcome = "saved"
        /\ ~bookingResult'.lookedUp
        /\ bookings'[booking.id].email = booking.email
C18_LookupOnlyWhenNewOrReferenceChanged == [][C18_SaveStep]_vars

\* C18 witness: a persisted Booking of an Event that exists no more has been
\* saved again with only its email changed, and no Event was looked up.
C18_Witness ==
  /\ bookingResult.outcome = "saved"
  /\ ~bookingResult.wasNew
  /\ bookingResult.modified = {"email"}
  /\ ~bookingResult.lookedUp
  /\ ~events[booking.eventId].exists

\* C19: when the close that a disconnect(uri) waits for resolves while the
\* cache holds, for uri, another handle than the one closed, the entry stays:
\* the handle cached since is not evicted.
C19_CloseStep ==
  \A p \in Callers :
    (pc[p] = "closing" /\ connectionCache[cUri[p]] \notin {None, cHandle[p]}
       /\ CloseResolve(p))
    => connectionCache'[cUri[p]] = connectionCache[cUri[p]]
C19_DisconnectKeepsNewerHandle == [][C19_CloseStep]_vars

\* C20: a notification of an open handle that reported an error and is not
\* the entry of its uri, while a newer handle is, changes neither the entry
\* nor the flag of the uri.
C20_NotificationStep ==
  \A h \in Handles :
    (handleState[h] = "open" /\ h \in errored
       /\ connectionCache[handleUri[h]] \notin {None, h}
       /\ (OnConnected(h) \/ OnError(h) \/ OnDisconnected(h)))
    => /\ connectionCache'[handleUri[h]] = connectionCache[handleUri[h]]
       /\ isConnected'[handleUri[h]] = isConnected[handleUri[h]]
C20_StaleNotificationIgnored == [][C20_NotificationStep]_vars

\* C21: in every reachable state and for every uri, when isConnectionAlive(uri)
\* is true getConnection(uri) is a handle: the flag is true for no uri that
\* has no cache entry.
C21_AliveImpliesCached ==
  \A u \in Uris : isConnectionAlive(u) => getConnection(u) # None

====
